---- MODULE Spec2Model ----
(***************************************************************************)
(* A model of open-ports-and-programs.py: the pipeline that classifies,    *)
(* sorts and renders the host's connections (get_port_program_mapping),    *)
(* the OutputManager singleton that carries the formatting state of a run, *)
(* and the refresh loop of __main__.                                       *)
(*                                                                         *)
(* Python values are modelled as follows.                                  *)
(*   str        a TLA+ string                                              *)
(*   Optional   a sequence of length at most one: None (or the empty       *)
(*              tuple of psutil's raddr) is << >>, a value v is << v >>    *)
(*   dict       the sequence of its items in insertion order               *)
(*   exception  the name of the exception that was raised, "" for none     *)
(***************************************************************************)
EXTENDS Integers, Sequences, FiniteSets, TLC

(***************************************************************************)
(* Bounds of the model.                                                    *)
(***************************************************************************)
\* the longest list psutil.net_connections() returns in one tick
MaxConns == 2
\* the number of ticks of the refresh loop that are explored
MaxTicks == 2

(***************************************************************************)
(* str: the operations of Python's str that the program uses.              *)
(***************************************************************************)
None == << >>
Some(v) == << v >>
IsNone(x) == x = << >>

\* the characters of program names, in code point order
CodePointOrder == " -.0123456789ABCDEFGHIJKLMNOPQRSTUVWXYZ_abcdefghijklmnopqrstuvwxyz"

CharAt(s, i) == SubSeq(s, i, i)

\* the rank of ord(ch) among the characters of program names
Ord(ch) == CHOOSE k \in 1..Len(CodePointOrder) : CharAt(CodePointOrder, k) = ch

Min(a, b) == IF a < b THEN a ELSE b
Max(a, b) == IF a > b THEN a ELSE b

\* a < b for two str: the first differing character decides, a proper
\* prefix is smaller
StrLess(a, b) ==
    LET n == Min(Len(a), Len(b))
        diff == {k \in 1..n : CharAt(a, k) # CharAt(b, k)}
    IN  IF diff = {}
        THEN Len(a) < Len(b)
        ELSE LET k == CHOOSE m \in diff : \A o \in diff : m <= o
             IN  Ord(CharAt(a, k)) < Ord(CharAt(b, k))

\* ch * n
RECURSIVE Repeat(_, _)
Repeat(ch, n) == IF n <= 0 THEN "" ELSE ch \o Repeat(ch, n - 1)

\* str(n) for an int n >= 0
RECURSIVE Str(_)
Str(n) ==
    LET digit == CharAt("0123456789", (n % 10) + 1)
    IN  IF n < 10 THEN digit ELSE Str(n \div 10) \o digit

\* format(s, '<w'), format(s, '>w') and s.center(w, fill)
LJust(s, w) == s \o Repeat(" ", w - Len(s))
RJust(s, w) == Repeat(" ", w - Len(s)) \o s
Center(s, w, fill) ==
    LET pad == w - Len(s)
        \* CPython: left = pad/2 + (pad & width & 1)
        left == (pad \div 2) + (IF pad % 2 = 1 /\ w % 2 = 1 THEN 1 ELSE 0)
    IN  IF pad <= 0 THEN s
        ELSE Repeat(fill, left) \o s \o Repeat(fill, pad - left)

\* sub in s
Contains(s, sub) ==
    \E k \in 1..(Len(s) - Len(sub) + 1) : SubSeq(s, k, k + Len(sub) - 1) = sub

(***************************************************************************)
(* The collaborators: the connections psutil can report, the process       *)
(* table, the services database, the resolver and the clock.               *)
(***************************************************************************)
Addr(ip, port) == [ip |-> ip, port |-> port]

\* psutil's sconn records (fd, family and type are the same for all, and
\* every connection has an owning pid)
SConn(lip, lport, raddr, status, pid) ==
    [laddr |-> Addr(lip, lport), raddr |-> raddr, status |-> status, pid |-> pid]

AllSConns ==
    { SConn("0.0.0.0", 80, None, "LISTEN", 100),
      SConn("0.0.0.0", 443, None, "LISTEN", 100),
      SConn("192.168.1.10", 51000, Some(Addr("93.184.216.34", 80)), "ESTABLISHED", 200),
      SConn("::", 80, None, "LISTEN", 300) }

Pids == {c.pid : c \in AllSConns}

\* the process table: the name of each process, while it is running
ProcessName(pid) ==
    CASE pid = 100 -> "nginx"
      [] pid = 200 -> "curl"
      [] pid = 300 -> "MicrosoftEdgeWebView2Updater.exe"

\* the lists net_connections() can return: no record twice, any order
ConnectionLists ==
    { s \in UNION { [1..n -> AllSConns] : n \in 0..MaxConns } :
        \A i, j \in DOMAIN s : i # j => s[i] # s[j] }

\* the processes that have exited when a tick resolves names; a tick reads
\* one snapshot of the process table
ExitedSets == {{}} \cup { {p} : p \in Pids }

\* socket.getservbyport: the name, or None where the lookup raises
ServByPort(port) ==
    CASE port = 80 -> Some("http")
      [] port = 443 -> Some("https")
      [] OTHER -> None

\* socket.getfqdn
GetFqdn(ip) == IF ip = "93.184.216.34" THEN "example.com" ELSE ip

\* the clock reading of print_header, lines 92-102
FormattedNow == "26.11.03 07:29:43 (+00:00)"

\* str(connection) of a psutil sconn
AddrStr(a) == "addr(ip='" \o a.ip \o "', port=" \o Str(a.port) \o ")"
ConnStr(c) ==
    "sconn(fd=-1, family=<AddressFamily.AF_INET: 2>, type=<SocketKind.SOCK_STREAM: 1>, laddr="
    \o AddrStr(c.laddr) \o ", raddr="
    \o (IF IsNone(c.raddr) THEN "()" ELSE AddrStr(c.raddr[1]))
    \o ", status='" \o c.status \o "', pid=" \o Str(c.pid) \o ")"

(***************************************************************************)
(* The filter.  The -r values of the model are literal patterns, for which *)
(* pattern.search is a substring test, and one that does not compile.      *)
(***************************************************************************)
MalformedRegexes == {"("}
Regexes == {None, Some("("), Some("curl"), Some("LISTEN")}

\* lines 196-199: the local variable pattern after the try statement;
\* re.error is caught and leaves pattern unbound
CompilePattern(regex) ==
    IF ~IsNone(regex) /\ regex[1] # ""
    THEN IF regex[1] \in MalformedRegexes
         THEN [bound |-> FALSE, value |-> None, error |-> TRUE]
         ELSE [bound |-> TRUE, value |-> regex, error |-> FALSE]
    ELSE [bound |-> TRUE, value |-> None, error |-> FALSE]

\* pattern.search(string) is not None, for a str
Search(pattern, string) == Contains(string, pattern.value[1])

\* get_program_by_pid, lines 172-177
get_program_by_pid(pid, exited) ==
    IF pid \in exited THEN None ELSE Some(ProcessName(pid))

(***************************************************************************)
(* The Classifier.                                                         *)
(***************************************************************************)
Item(port, pid, program, foreign_address) ==
    [port |-> port, pid |-> pid, program |-> program,
     foreign_address |-> foreign_address]

\* d.setdefault(key, value) in place of d[key] = value
DictSet_keep_first(d, item) ==
    IF \E k \in DOMAIN d : d[k].port = item.port THEN d ELSE Append(d, item)

\* d[key] = value: a key already there keeps its place
DictSet(d, item) ==
    IF \E k \in DOMAIN d : d[k].port = item.port
    THEN [k \in DOMAIN d |-> IF d[k].port = item.port THEN item ELSE d[k]]
    ELSE Append(d, item)

\* process_connection, lines 179-187, on the classifier's state st
process_connection(connection, st, exited) ==
    LET port == connection.laddr.port
        pid == connection.pid
        foreign_address == connection.raddr
        program == get_program_by_pid(pid, exited)
        item == Item(port, pid, program, foreign_address)
    IN  IF connection.status = "LISTEN"
        THEN [st EXCEPT !.listening_mapping = DictSet(@, item)]
        ELSE [st EXCEPT !.non_listening_mapping = DictSet(@, item)]

\* set_max_program_len without the comparison of line 142
set_max_program_len_unguarded(current, max_program_len) == Len(max_program_len)

\* set_max_program_len with the assignment of line 143 lost
set_max_program_len_ignored(current, max_program_len) == current

\* OutputManager.set_max_program_len, lines 136-143, for a str argument
set_max_program_len(current, max_program_len) ==
    IF Len(max_program_len) > current THEN Len(max_program_len) ELSE current

\* line 204: the exception the condition raises, "" if none
FilterRaises(pattern, connection, exited) ==
    IF ~pattern.bound THEN "UnboundLocalError"
    ELSE IF ~IsNone(pattern.value)
            /\ ~Search(pattern, ConnStr(connection))
            /\ IsNone(get_program_by_pid(connection.pid, exited))
         THEN "TypeError"
         ELSE ""

\* line 204: the condition, where it raises nothing
FilterExcludes(pattern, connection, exited) ==
    /\ ~IsNone(pattern.value)
    /\ ~Search(pattern, ConnStr(connection))
    /\ ~Search(pattern, get_program_by_pid(connection.pid, exited)[1])

\* one iteration of the loop of lines 201-207
ClassifyOne(connection, st, pattern, listening_only, exited) ==
    LET seen == [st EXCEPT !.scanned = @ + 1]
    IN  IF listening_only /\ connection.status # "LISTEN" THEN seen
        ELSE IF FilterRaises(pattern, connection, exited) # ""
        THEN [seen EXCEPT !.raised = FilterRaises(pattern, connection, exited)]
        ELSE IF FilterExcludes(pattern, connection, exited) THEN seen
        ELSE LET put == process_connection(connection, seen, exited)
                 name == get_program_by_pid(connection.pid, exited)
             IN  \* None > self._max_program_len raises TypeError
                 IF IsNone(name) THEN [put EXCEPT !.raised = "TypeError"]
                 ELSE [put EXCEPT !.max_program_len = set_max_program_len(@, name[1])]

\* the loop of lines 201-207 from connection i on; an exception ends it
RECURSIVE ClassifyFrom(_, _, _, _, _, _)
ClassifyFrom(i, all_connections, st, pattern, listening_only, exited) ==
    IF i > Len(all_connections) \/ st.raised # "" THEN st
    ELSE ClassifyFrom(i + 1, all_connections,
                      ClassifyOne(all_connections[i], st, pattern, listening_only, exited),
                      pattern, listening_only, exited)

(***************************************************************************)
(* The Sorter.                                                             *)
(***************************************************************************)
SortKeys == {"PID", "Port", "Program"}

\* every branch of lines 209-220 with the key of the Port branch
KeyLess_by_port(sort_by, a, b) == a.port < b.port

\* the key functions of lines 209-220, and key(a) < key(b)
ProgramKey(item) == IF ~IsNone(item.program) /\ item.program[1] # "" THEN item.program[1] ELSE ""
KeyLess(sort_by, a, b) ==
    CASE sort_by = "PID" -> a.pid < b.pid
      [] sort_by = "Port" -> a.port < b.port
      [] sort_by = "Program" -> StrLess(ProgramKey(a), ProgramKey(b))
      [] OTHER -> a.port < b.port

\* sorted with the port as a secondary key
InsertSorted_port_ties(sort_by, out, item) ==
    LET before == {k \in DOMAIN out :
                      \/ KeyLess(sort_by, out[k], item)
                      \/ /\ ~KeyLess(sort_by, item, out[k])
                         /\ out[k].port < item.port}
        n == Cardinality(before)
    IN  SubSeq(out, 1, n) \o << item >> \o SubSeq(out, n + 1, Len(out))

\* sorted(items, key=...): a stable sort; item goes after the items of out
\* that are not greater than it
InsertSorted(sort_by, out, item) ==
    LET before == {k \in DOMAIN out : ~KeyLess(sort_by, item, out[k])}
        n == Cardinality(before)
    IN  SubSeq(out, 1, n) \o << item >> \o SubSeq(out, n + 1, Len(out))

RECURSIVE SortedFrom(_, _, _, _)
SortedFrom(i, sort_by, items, out) ==
    IF i > Len(items) THEN out
    ELSE SortedFrom(i + 1, sort_by, items, InsertSorted(sort_by, out, items[i]))

Sorted(sort_by, items) == SortedFrom(1, sort_by, items, << >>)


(***************************************************************************)
(* OutputManager: the formatting of lines and sections.  An OutputManager  *)
(* is the record of its fields; printing returns the lines printed, each   *)
(* with the kind of line it is.                                            *)
(***************************************************************************)
\* the class attribute _max_program_len, line 56
MinProgramLen == 30

Line(kind, text) == [kind |-> kind, text |-> text]

\* OutputManager._formatter applied to (port, program, pid), lines 60-63:
\* '{:<6} {:<W} {:<6}' has three fields, a fourth argument is not used
Formatter(max_program_len, port, program, pid) ==
    LJust(port, 6) \o " " \o LJust(program, max_program_len) \o " " \o LJust(pid, 6)

\* OutputManager._header, lines 65-67
Header(om) ==
    Formatter(om.max_program_len, "Port:", "Program", "PID")
    \o " " \o RJust("Svc Name / Foreign Addr", 20)

\* OutputManager._separator, lines 73-75
Separator(om) == Repeat("-", om.max_line_len)

\* the foreign address string of output, lines 147-149
ForeignAddressStr(foreign_address, dns) ==
    IF IsNone(foreign_address) THEN ""
    ELSE LET a == foreign_address[1]
             plain == a.ip \o ":" \o Str(a.port)
         IN  IF dns THEN plain \o " (" \o GetFqdn(a.ip) \o ")" ELSE plain

\* OutputManager.output, lines 145-170
output(om, port, program, pid, foreign_address, dns) ==
    LET shown == IF ~IsNone(program) /\ program[1] # "" THEN program[1] ELSE "<unknown>"
        foreign_address_str == ForeignAddressStr(foreign_address, dns)
        service == ServByPort(port)
        service_name == IF IsNone(service) THEN "" ELSE service[1]
        preformat == Formatter(om.max_program_len, Str(port), shown, Str(pid))
    IN  IF om.bare THEN preformat
        ELSE IF service_name # "" /\ foreign_address_str # ""
        THEN preformat \o LJust("SVC: " \o service_name, 10)
                       \o " " \o RJust(foreign_address_str, 40)
        ELSE IF service_name # "" /\ foreign_address_str = ""
        THEN preformat \o LJust("SVC: " \o service_name, 20)
        ELSE preformat \o RJust(foreign_address_str, 40)

\* the line of one item of a sorted mapping
OutputItem(om, item, dns) ==
    output(om, item.port, item.program, item.pid, item.foreign_address, dns)

\* OutputManager.calculate_max_line_len, lines 83-88: the new _max_line_len
RECURSIVE MaxLineLenFrom(_, _, _, _)
MaxLineLenFrom(i, om, connections, max_line_len) ==
    IF i > Len(connections) THEN max_line_len
    ELSE MaxLineLenFrom(i + 1, om, connections,
                        Max(max_line_len, Len(OutputItem(om, connections[i], FALSE))))

calculate_max_line_len(om, connections) ==
    [om EXCEPT !.max_line_len = MaxLineLenFrom(1, om, connections, 0)]

\* OutputManager.print_header, lines 90-113: the lines it prints
print_header(om, state, bState, bHeader, bSeparator) ==
    LET centered_state ==
            Center(state \o " (" \o FormattedNow \o ")", om.max_line_len, "-")
    IN  IF om.bare THEN << >>
        ELSE (IF bState THEN << Line("title", centered_state) >> ELSE << >>)
             \o (IF bHeader THEN << Line("header", Header(om)) >> ELSE << >>)
             \o (IF bSeparator THEN << Line("separator", Separator(om)) >> ELSE << >>)

\* print('\n' * n, end='')
BlankLines(n) == [k \in 1..n |-> Line("blank", "")]

\* print_section without the assignment of line 120
print_section_no_flag(om, state, connections, lines_before, dns) ==
    LET measured == calculate_max_line_len(om, connections)
        first == ~measured.header_displayed
        before == IF first THEN 0 ELSE lines_before
    IN  IF connections = << >>
        THEN [om |-> measured, lines |-> << >>]
        ELSE [om |-> measured,
              lines |->
                  BlankLines(before)
                  \o (IF ~measured.bare
                      THEN print_header(measured, state, TRUE, first, first)
                      ELSE << >>)
                  \o [k \in DOMAIN connections |->
                        Line("entry", OutputItem(measured, connections[k], dns))]]

\* OutputManager.print_section, lines 115-131, as called on lines 222 and
\* 224 (lines_after = 0, bState = True): the OutputManager afterwards and
\* the lines printed
print_section(om, state, connections, lines_before, dns) ==
    LET measured == calculate_max_line_len(om, connections)
        first == ~measured.header_displayed
        shown == [measured EXCEPT !.header_displayed = TRUE]
        before == IF first THEN 0 ELSE lines_before
    IN  IF connections = << >>
        THEN [om |-> measured, lines |-> << >>]
        ELSE [om |-> shown,
              lines |->
                  BlankLines(before)
                  \o (IF ~shown.bare
                      THEN print_header(shown, state, TRUE, first, first)
                      ELSE << >>)
                  \o [k \in DOMAIN connections |->
                        Line("entry", OutputItem(shown, connections[k], dns))]]

(***************************************************************************)
(* The state of a run.                                                     *)
(***************************************************************************)
VARIABLES
    \* the arguments of the run, lines 229-246
    sort_by, args_bare, listening_only, dns, regex, continuous,
    \* the OutputManager singleton, lines 53-58
    bare, max_program_len, max_line_len, header_displayed,
    \* the place of the main thread, the ticks started, the exit status
    \* (None while running) and where a KeyboardInterrupt was raised
    pc, ticks, exit_status, interrupted_at,
    \* the tick in progress: what the collaborators returned, the locals of
    \* get_port_program_mapping, the connections the loop of line 201 got
    \* to, the exception raised
    all_connections, exited, listening_mapping, non_listening_mapping,
    sorted_listening, sorted_non_listening, scanned, raised,
    \* what the tick in progress has printed, and the column header rows
    \* printed since the start of the run
    stdout, headers_printed

args == << sort_by, args_bare, listening_only, dns, regex, continuous >>
manager == << bare, max_program_len, max_line_len, header_displayed >>
control == << pc, ticks, exit_status, interrupted_at >>
tick == << all_connections, exited, listening_mapping, non_listening_mapping,
           sorted_listening, sorted_non_listening, scanned, raised >>
vars == << args, manager, control, tick, stdout, headers_printed >>

\* the OutputManager as a record
OM == [bare |-> bare, max_program_len |-> max_program_len,
       max_line_len |-> max_line_len, header_displayed |-> header_displayed]

CountKind(lines, kind) == Cardinality({k \in DOMAIN lines : lines[k].kind = kind})

\* -c: None, or the interval (its length plays no part)
Intervals == {None, Some(10)}

Init ==
    /\ sort_by \in SortKeys
    /\ args_bare \in BOOLEAN
    /\ listening_only \in BOOLEAN
    \* -d only adds the resolved name to the foreign address of the final
    \* render; the runs explored leave it off
    /\ dns = FALSE
    /\ regex \in Regexes
    /\ continuous \in Intervals
    /\ bare = FALSE
    /\ max_program_len = MinProgramLen
    /\ max_line_len = 0
    /\ header_displayed = FALSE
    /\ pc = "tick"
    /\ ticks = 0
    /\ exit_status = None
    /\ interrupted_at = None
    /\ all_connections = << >>
    /\ exited = {}
    /\ listening_mapping = << >>
    /\ non_listening_mapping = << >>
    /\ sorted_listening = << >>
    /\ sorted_non_listening = << >>
    /\ scanned = 0
    /\ raised = ""
    /\ stdout = << >>
    /\ headers_printed = 0

(***************************************************************************)
(* A tick: get_port_program_mapping, in the three steps between which the  *)
(* main thread can be interrupted.                                         *)
(***************************************************************************)
RegexErrorLine == Line("error", "Error: missing ), unterminated subpattern at position 0")

\* lines 190-220: set_bare, the enumeration, the filter's compilation, the
\* classification loop and the sort.  An exception of the loop is caught
\* nowhere: the interpreter exits with status 1.
ClassifyAndSort(connections, gone) ==
    /\ pc = "tick"
    /\ ticks < MaxTicks
    /\ LET pattern == CompilePattern(regex)
           st0 == [listening_mapping |-> << >>, non_listening_mapping |-> << >>,
                   max_program_len |-> max_program_len, raised |-> "", scanned |-> 0]
           st == ClassifyFrom(1, connections, st0, pattern, listening_only, gone)
       IN  /\ bare' = args_bare
           /\ all_connections' = connections
           /\ exited' = gone
           /\ listening_mapping' = st.listening_mapping
           /\ non_listening_mapping' = st.non_listening_mapping
           /\ max_program_len' = st.max_program_len
           /\ scanned' = st.scanned
           /\ raised' = st.raised
           /\ stdout' = IF pattern.error THEN << RegexErrorLine >> ELSE << >>
           /\ IF st.raised # ""
              THEN /\ pc' = "crashed"
                   /\ exit_status' = Some(1)
                   /\ sorted_listening' = << >>
                   /\ sorted_non_listening' = << >>
              ELSE /\ pc' = "listening"
                   /\ exit_status' = exit_status
                   /\ sorted_listening' = Sorted(sort_by, st.listening_mapping)
                   /\ sorted_non_listening' = Sorted(sort_by, st.non_listening_mapping)
    /\ ticks' = ticks + 1
    /\ UNCHANGED << args, max_line_len, header_displayed, interrupted_at, headers_printed >>

\* what a print_section call does to the singleton and to the output
Printed(result) ==
    /\ max_line_len' = result.om.max_line_len
    /\ header_displayed' = result.om.header_displayed
    /\ stdout' = stdout \o result.lines
    /\ headers_printed' = headers_printed + CountKind(result.lines, "header")

\* line 222
PrintListening ==
    /\ pc = "listening"
    /\ Printed(print_section(OM, "LISTENING", sorted_listening, 1, dns))
    /\ pc' = "non_listening"
    /\ UNCHANGED << args, bare, max_program_len, ticks, exit_status, interrupted_at, tick >>

\* lines 223-226
PrintNonListening ==
    /\ pc = "non_listening"
    /\ IF ~listening_only
       THEN Printed(print_section(OM, "NON-LISTENING", sorted_non_listening, 1, dns))
       ELSE UNCHANGED << max_line_len, header_displayed, stdout, headers_printed >>
    /\ pc' = "returned"
    /\ UNCHANGED << args, bare, max_program_len, ticks, exit_status, interrupted_at, tick >>

(***************************************************************************)
(* The refresh loop, lines 248-256.                                        *)
(***************************************************************************)
\* the locals of the tick are gone once get_port_program_mapping returned
Forget ==
    /\ all_connections' = << >>
    /\ exited' = {}
    /\ listening_mapping' = << >>
    /\ non_listening_mapping' = << >>
    /\ sorted_listening' = << >>
    /\ sorted_non_listening' = << >>
    /\ scanned' = 0
    /\ raised' = ""
    /\ stdout' = << >>

\* lines 251-253: without -c the loop is left, and the script ends
LoopControl ==
    /\ pc = "returned"
    /\ IF IsNone(continuous)
       THEN pc' = "stopped" /\ exit_status' = Some(0)
       ELSE pc' = "sleep" /\ exit_status' = exit_status
    /\ Forget
    /\ UNCHANGED << args, manager, ticks, interrupted_at, headers_printed >>

\* line 253: time.sleep returns
WakeUp ==
    /\ pc = "sleep"
    /\ pc' = "tick"
    /\ UNCHANGED << args, manager, ticks, exit_status, interrupted_at, tick,
                    stdout, headers_printed >>

\* lines 249 and 254-256: SIGINT raises KeyboardInterrupt in the main thread
\* wherever it is inside the try statement, in the call of line 250 as in
\* the sleep of line 253
InTry == pc \in {"tick", "listening", "non_listening", "returned", "sleep"}

\* what the handler of lines 254-256 prints
Acknowledgment == << Line("blank", ""), Line("ack", "Monitoring stopped.") >>

\* the locals of an interrupted tick are gone with its frame
Unwind ==
    /\ all_connections' = << >>
    /\ exited' = {}
    /\ listening_mapping' = << >>
    /\ non_listening_mapping' = << >>
    /\ sorted_listening' = << >>
    /\ sorted_non_listening' = << >>
    /\ scanned' = 0
    /\ raised' = "KeyboardInterrupt"

\* the handler without the break of line 256
KeyboardInterrupt_no_break ==
    /\ InTry
    /\ interrupted_at' = Some(pc)
    /\ Unwind
    /\ stdout' = stdout \o Acknowledgment
    /\ pc' = "tick"
    /\ UNCHANGED << args, manager, ticks, exit_status, headers_printed >>

KeyboardInterrupt ==
    /\ InTry
    /\ interrupted_at' = Some(pc)
    /\ Unwind
    /\ stdout' = stdout \o Acknowledgment
    /\ pc' = "stopped"
    /\ exit_status' = Some(0)
    /\ UNCHANGED << args, manager, ticks, headers_printed >>

Next ==
    \/ \E connections \in ConnectionLists, gone \in ExitedSets :
          ClassifyAndSort(connections, gone)
    \/ PrintListening
    \/ PrintNonListening
    \/ LoopControl
    \/ WakeUp
    \/ KeyboardInterrupt

Spec == Init /\ [][Next]_vars


(***************************************************************************)
(* The Sorter on its own: every classification result of the bounds, with  *)
(* resolved, unresolved and empty program names, under every sort key.     *)
(***************************************************************************)
SorterPorts == {80, 443, 51000}
\* (pid, program) as process_connection stores them
SorterOwners ==
    { << 100, Some("nginx") >>, << 200, Some("curl") >>, << 300, None >>, << 400, Some("") >> }
SorterItems ==
    { Item(port, owner[1], owner[2], None) : port \in SorterPorts, owner \in SorterOwners }

\* the dicts of at most MaxConns items, keyed by port
SorterDicts ==
    { d \in UNION { [1..n -> SorterItems] : n \in 0..MaxConns } :
        \A i, j \in DOMAIN d : i # j => d[i].port # d[j].port }

SorterInit ==
    /\ sort_by \in SortKeys
    /\ \E d \in SorterDicts, k \in 0..MaxConns :
          /\ k <= Len(d)
          /\ listening_mapping = SubSeq(d, 1, k)
          /\ non_listening_mapping = SubSeq(d, k + 1, Len(d))
    /\ args_bare = FALSE
    /\ listening_only = FALSE
    /\ dns = FALSE
    /\ regex = None
    /\ continuous = None
    /\ bare = FALSE
    /\ max_program_len = MinProgramLen
    /\ max_line_len = 0
    /\ header_displayed = FALSE
    /\ pc = "sort"
    /\ ticks = 1
    /\ exit_status = None
    /\ interrupted_at = None
    /\ all_connections = << >>
    /\ exited = {}
    /\ sorted_listening = << >>
    /\ sorted_non_listening = << >>
    /\ scanned = 0
    /\ raised = ""
    /\ stdout = << >>
    /\ headers_printed = 0

\* lines 209-220
SortMappings ==
    /\ pc = "sort"
    /\ sorted_listening' = Sorted(sort_by, listening_mapping)
    /\ sorted_non_listening' = Sorted(sort_by, non_listening_mapping)
    /\ pc' = "sorted"
    /\ UNCHANGED << args, manager, ticks, exit_status, interrupted_at,
                    all_connections, exited, listening_mapping,
                    non_listening_mapping, scanned, raised, stdout, headers_printed >>

SorterNext == SortMappings

SpecSorter == SorterInit /\ [][SorterNext]_vars


(***************************************************************************)
(* Notions the properties share.                                           *)
(***************************************************************************)
\* the classification and the sort of the tick in progress have completed
Classified == pc \in {"listening", "non_listening", "returned"}

\* the tick in progress has run to the end of its report
Reported == pc = "returned"

\* connection k of the enumeration passes the listening-only test
PassesListeningOnly(k) ==
    ~(listening_only /\ all_connections[k].status # "LISTEN")

\* connection k of a classified tick was retained: it passed the
\* listening-only test and the filter
Kept(k) ==
    /\ PassesListeningOnly(k)
    /\ ~FilterExcludes(CompilePattern(regex), all_connections[k], exited)

\* the connections of the bucket of mapping m among the indices S
InBucket(S, listening) ==
    {k \in S : (all_connections[k].status = "LISTEN") = listening}

Ports(m) == {m[i].port : i \in DOMAIN m}

\* the sort key of an item, as the claim states it
KeyOf(item) ==
    CASE sort_by = "PID" -> << "int", item.pid >>
      [] sort_by = "Port" -> << "int", item.port >>
      [] sort_by = "Program" ->
            << "str", IF IsNone(item.program) THEN "" ELSE item.program[1] >>

KeyLeq(a, b) ==
    IF KeyOf(a)[1] = "int"
    THEN KeyOf(a)[2] <= KeyOf(b)[2]
    ELSE ~StrLess(KeyOf(b)[2], KeyOf(a)[2])

EntryLines == {k \in DOMAIN stdout : stdout[k].kind = "entry"}

(***************************************************************************)
(* C1                                                                      *)
(***************************************************************************)
\* C1: across the ticks of a run, whatever the connection lists, the filter
\* and the listening-only setting, maxProgramNameWidth (_max_program_len)
\* never decreases from one state to the next and is never below the floor
\* of 30.
C1_WidthNeverShrinks ==
    /\ [](max_program_len >= MinProgramLen)
    /\ [][max_program_len' >= max_program_len]_vars

\* the width has grown, and a later tick has classified only shorter names
C1_Witness ==
    /\ ticks >= 2
    /\ Classified
    /\ max_program_len > MinProgramLen
    /\ all_connections # << >>
    /\ \A k \in DOMAIN all_connections :
          Kept(k) /\ Len(ProcessName(all_connections[k].pid)) < max_program_len

(***************************************************************************)
(* C2                                                                      *)
(***************************************************************************)
\* the title lines a completed report holds when every non-empty section
\* printed has its own
SectionsReported ==
    (IF sorted_listening # << >> THEN 1 ELSE 0)
    + (IF ~listening_only /\ sorted_non_listening # << >> THEN 1 ELSE 0)

\* C2 as amended: the column header row and the separator rule are printed
\* at most once per run, with the first non-empty section that is rendered,
\* and not at all in bare mode; the centered title line is printed with
\* every non-empty section of every tick (never in bare mode);
\* headerPrinted (_header_displayed) goes from false to true when the first
\* non-empty section is rendered, bare or not, and is never reset.
C2_HeaderRowOnce ==
    /\ [](headers_printed = IF header_displayed /\ ~args_bare THEN 1 ELSE 0)
    /\ [](CountKind(stdout, "separator") = CountKind(stdout, "header"))
    /\ [](Reported =>
            CountKind(stdout, "title") = IF args_bare THEN 0 ELSE SectionsReported)
    /\ [][header_displayed => header_displayed']_vars
    /\ [][(Cardinality(EntryLines') > Cardinality(EntryLines)) => header_displayed']_vars
    /\ [][(~header_displayed /\ header_displayed') =>
            Cardinality(EntryLines') > Cardinality(EntryLines)]_vars

\* a second tick has rendered a section under its title line, without
\* repeating the column header row printed by the first
C2_Witness ==
    /\ ticks = 2
    /\ Reported
    /\ headers_printed = 1
    /\ CountKind(stdout, "header") = 0
    /\ CountKind(stdout, "title") >= 1
    /\ EntryLines # {}

\* C2 as claimed: the header, that is the title line with the column header
\* row and the separator rule, is printed at most once, on the first tick
\* with a non-empty section.
C2_HeaderWithTitleOnce ==
    /\ CountKind(stdout, "title") <= 1
    /\ headers_printed <= 1
    /\ CountKind(stdout, "separator") <= 1
    /\ header_displayed => headers_printed = 1

(***************************************************************************)
(* C3                                                                      *)
(***************************************************************************)
\* C3 as amended: a cancellation takes effect wherever the main thread is
\* inside the loop when the interrupt arrives, in the timed wait or in the
\* middle of a tick, whose report is then left unfinished; in every case
\* the loop prints its one-line acknowledgment, stops, and the run ends
\* with success status.
C3_InterruptStopsWithSuccess ==
    ~IsNone(interrupted_at) =>
        /\ pc = "stopped"
        /\ exit_status = Some(0)
        /\ Len(stdout) >= 2
        /\ SubSeq(stdout, Len(stdout) - 1, Len(stdout)) = Acknowledgment
        /\ CountKind(stdout, "ack") = 1

\* the run was stopped between the two sections of a report, after the
\* entries of the first
C3_Witness ==
    /\ interrupted_at = Some("non_listening")
    /\ pc = "stopped"
    /\ ~listening_only
    /\ EntryLines # {}
    /\ stdout[Len(stdout)].kind = "ack"

\* C3 as claimed: a cancellation takes effect only at the timed wait
\* between ticks, never in a tick that has started.
C3_InterruptOnlyInSleep ==
    ~IsNone(interrupted_at) => interrupted_at = Some("sleep")

(***************************************************************************)
(* C4                                                                      *)
(***************************************************************************)
\* the classifier's result on the tick's input with no filter at all
Unfiltered ==
    ClassifyFrom(1, all_connections,
                 [listening_mapping |-> << >>, non_listening_mapping |-> << >>,
                  max_program_len |-> MinProgramLen, raised |-> "", scanned |-> 0],
                 CompilePattern(None), listening_only, exited)

\* C4: with a malformed filter expression the tick reports the error and
\* goes on as if no filter had been supplied: it fails only where the
\* unfiltered tick fails, and classifies every connection as the unfiltered
\* tick does.
C4_MalformedFilterContinues ==
    (CompilePattern(regex).error /\ pc \in {"crashed", "listening"}) =>
        /\ CountKind(stdout, "error") = 1
        /\ (raised # "") = (Unfiltered.raised # "")
        /\ listening_mapping = Unfiltered.listening_mapping
        /\ non_listening_mapping = Unfiltered.non_listening_mapping

(***************************************************************************)
(* C5                                                                      *)
(***************************************************************************)
\* C5: when the name of a connection's process cannot be resolved, with or
\* without a (well-formed) filter, the tick does not fail.
C5_UnresolvedNameTolerated ==
    (/\ ~CompilePattern(regex).error
     /\ \E k \in DOMAIN all_connections :
           PassesListeningOnly(k) /\ all_connections[k].pid \in exited)
    => pc # "crashed"

(***************************************************************************)
(* C6                                                                      *)
(***************************************************************************)
\* the connections the loop of line 201 has got to
Scanned == 1..scanned

\* mapping m holds, for each local port of the connections S, one entry:
\* that of the last of them with that port
LastWriteWins(m, S) ==
    /\ Ports(m) = {all_connections[k].laddr.port : k \in S}
    /\ Len(m) = Cardinality(Ports(m))
    /\ \A i \in DOMAIN m :
          LET same == {k \in S : all_connections[k].laddr.port = m[i].port}
              last == CHOOSE k \in same : \A o \in same : o <= k
              c == all_connections[last]
          IN  /\ m[i].pid = c.pid
              /\ m[i].foreign_address = c.raddr
              /\ m[i].program = get_program_by_pid(c.pid, exited)

\* C6 as amended: with no filter, every connection the Classifier processes
\* is routed by its state, to listening iff it is LISTEN and otherwise to
\* nonListening, or dropped if it is non-listening and listening-only is
\* set; a mapping holds one entry per local port, so of the connections of a
\* bucket that share a local port only the last one processed appears.
C6_PartitionByPort ==
    (IsNone(regex) /\ pc \in {"listening", "crashed"}) =>
        /\ LastWriteWins(listening_mapping, InBucket(Scanned, TRUE))
        /\ LastWriteWins(non_listening_mapping,
                         IF listening_only THEN {} ELSE InBucket(Scanned, FALSE))

\* two listening connections on one local port were classified
C6_Witness ==
    /\ pc = "listening"
    /\ IsNone(regex)
    /\ Len(listening_mapping) = 1
    /\ Cardinality(InBucket(DOMAIN all_connections, TRUE)) = 2

\* connection c has its own entry in mapping m
Appears(c, m) ==
    \E i \in DOMAIN m :
        /\ m[i].port = c.laddr.port
        /\ m[i].pid = c.pid
        /\ m[i].foreign_address = c.raddr

\* C6 as claimed: with no filter, every connection appears in exactly one
\* of the two mappings, or in neither if it is dropped by listening-only.
C6_EveryConnectionAppears ==
    (IsNone(regex) /\ pc = "listening") =>
        \A k \in DOMAIN all_connections :
            LET c == all_connections[k]
            IN  /\ Appears(c, listening_mapping) = (c.status = "LISTEN")
                /\ Appears(c, non_listening_mapping)
                      = (c.status # "LISTEN" /\ ~listening_only)

(***************************************************************************)
(* C7                                                                      *)
(***************************************************************************)
NonDecreasing(s) == \A i, j \in DOMAIN s : i < j => KeyLeq(s[i], s[j])

\* s holds the items of m, each once
SameItems(s, m) ==
    /\ Len(s) = Len(m)
    /\ {s[i] : i \in DOMAIN s} = {m[i] : i \in DOMAIN m}

\* C7: the Sorter's output for each bucket holds the bucket's entries in
\* non-decreasing order of the chosen key: the port for Port, the process
\* ID for PID, the program name for Program, where an unresolved name
\* compares as the empty string and so comes first.
C7_SortedByKey ==
    pc = "sorted" =>
        /\ NonDecreasing(sorted_listening)
        /\ NonDecreasing(sorted_non_listening)
        /\ SameItems(sorted_listening, listening_mapping)
        /\ SameItems(sorted_non_listening, non_listening_mapping)

\* a bucket that was not in order was sorted by program, and its entry with
\* the unresolved name came first
C7_Witness ==
    /\ pc = "sorted"
    /\ sort_by = "Program"
    /\ Len(sorted_listening) >= 2
    /\ sorted_listening # listening_mapping
    /\ IsNone(sorted_listening[1].program)
    /\ ~IsNone(sorted_listening[2].program)

(***************************************************************************)
(* C8                                                                      *)
(***************************************************************************)
EqualKeys(a, b) == KeyOf(a) = KeyOf(b)

\* where the enumeration first had a retained connection of the bucket with
\* that local port
FirstKept(port, listening) ==
    LET same == {k \in InBucket(DOMAIN all_connections, listening) :
                    Kept(k) /\ all_connections[k].laddr.port = port}
    IN  CHOOSE k \in same : \A o \in same : k <= o

TiesInEnumerationOrder(s, listening) ==
    \A i, j \in DOMAIN s :
        (i < j /\ EqualKeys(s[i], s[j])) =>
            FirstKept(s[i].port, listening) < FirstKept(s[j].port, listening)

\* C8 as amended: entries of a bucket with equal sort keys appear in the
\* order in which the enumeration first yielded their local ports; the sort
\* has no secondary key (and under Port no two entries of a bucket have
\* equal keys).
C8_TiesKeepEnumerationOrder ==
    pc = "listening" =>
        /\ TiesInEnumerationOrder(sorted_listening, TRUE)
        /\ TiesInEnumerationOrder(sorted_non_listening, FALSE)

\* two entries with equal keys came out with the greater port first
C8_Witness ==
    /\ pc = "listening"
    /\ sort_by \in {"PID", "Program"}
    /\ Len(sorted_listening) = 2
    /\ EqualKeys(sorted_listening[1], sorted_listening[2])
    /\ sorted_listening[1].port > sorted_listening[2].port

TiesByPort(s) ==
    \A i, j \in DOMAIN s : (i < j /\ EqualKeys(s[i], s[j])) => s[i].port < s[j].port

\* C8 as claimed: entries with equal sort keys appear in ascending order of
\* local port, whatever the order of the enumeration.
C8_TiesBrokenByPort ==
    /\ TiesByPort(sorted_listening)
    /\ TiesByPort(sorted_non_listening)

(***************************************************************************)
(* C9                                                                      *)
(***************************************************************************)
\* C9: in bare mode every rendered entry line carries the port, the
\* program, the pid and the foreign address, as "<ip>:<port>" when the
\* connection has a remote peer.
C9_BareLineCarriesForeignAddress ==
    (args_bare /\ Reported /\ ~listening_only) =>
        \A i \in DOMAIN sorted_non_listening :
            LET item == sorted_non_listening[i]
                program == IF IsNone(item.program) THEN "<unknown>" ELSE item.program[1]
            IN  \E k \in EntryLines :
                    /\ Contains(stdout[k].text, Str(item.port))
                    /\ Contains(stdout[k].text, program)
                    /\ Contains(stdout[k].text, Str(item.pid))
                    /\ ~IsNone(item.foreign_address) =>
                          Contains(stdout[k].text,
                                   ForeignAddressStr(item.foreign_address, FALSE))

(***************************************************************************)
(* C10                                                                     *)
(***************************************************************************)
\* C10 as amended: after the classification of a tick, maxProgramNameWidth
\* is at least the length of the program name of every connection that was
\* retained, that is, that passed both the listening-only test and the
\* filter; a connection the filter excludes reports nothing.
C10_WidthCoversRetained ==
    Classified =>
        \A k \in DOMAIN all_connections :
            Kept(k) => max_program_len >= Len(ProcessName(all_connections[k].pid))

\* under a filter, a retained connection has grown the width while another
\* was excluded
C10_Witness ==
    /\ Classified
    /\ ~IsNone(regex)
    /\ max_program_len > MinProgramLen
    /\ \E k \in DOMAIN all_connections :
          Kept(k) /\ Len(ProcessName(all_connections[k].pid)) = max_program_len
    /\ \E k \in DOMAIN all_connections : PassesListeningOnly(k) /\ ~Kept(k)

\* C10 as claimed: the width covers the name of every connection that
\* passes the listening-only test, whether or not the filter excludes it.
C10_WidthCoversExcluded ==
    Classified =>
        \A k \in DOMAIN all_connections :
            PassesListeningOnly(k) =>
                max_program_len >= Len(ProcessName(all_connections[k].pid))

====
